---------------------------- MODULE Spec2Model ----------------------------
(***************************************************************************)
(* A model of pycozmo's client stack (src/pycozmo/client.py): the          *)
(* ReceiveThread, the SendThread, the Client run-loop and the application  *)
(* thread that calls the Client's API.                                     *)
(*                                                                         *)
(* client.py imports ReceiveWindow and SendWindow from window.py, the      *)
(* Packet classes from protocol_base.py / protocol_encoder.py and the      *)
(* Dispatcher from event.py.  Those files are not part of the sources at   *)
(* hand; the operators RW_*, SW_*, is_oob and the one-shot handler of      *)
(* EvtRobotReady are written from their description in spec.md.            *)
(***************************************************************************)
EXTENDS Integers, Sequences, FiniteSets, TLC

(***************************************************************************)
(* Bounds of the model.                                                    *)
(***************************************************************************)
\* seq_bits (16 in the program), scaled down: sequence numbers are 0 .. 2^SeqBits - 1
SeqBits == 3
\* window_size (256 in the program), scaled down
WindowSize == 2
\* packets that ReceiveThread.handle_pkt may have put on its queue (SpecRecv)
MaxRecvQueue == 9
\* out-of-band packets among them (SpecRecv)
MaxOob == 2
\* keepalive pings waiting in the SendThread's queue beyond which no time passes
MaxPendingPings == 1
\* calls of connect() by the application
MaxConnects == 1
\* packets the robot sends (Spec)
MaxRx == 2
\* calls of send() and disconnect() by the application (Spec)
MaxAppSends == 1
\* frames the SendThread builds (Spec)
MaxFrames == 1
\* packets the robot sends, and calls of send() by the application (SpecSend)
MaxAckRx == 3
MaxWindowSends == 3
\* calls of send() by the application, and datagrams the robot sends (SpecLoops)
MaxLoopSends == 1
MaxLoopRx == 2
MaxPingSends == 1
MaxPingRx == 1
MaxTakeRx == 3
MaxInitFrames == 6
MaxInitRx == 4

(***************************************************************************)
(* Program constants.                                                      *)
(***************************************************************************)
\* Client.IDLE, Client.CONNECTING, Client.CONNECTED
IDLE == 1
CONNECTING == 2
CONNECTED == 3
\* PING_INTERVAL, in units of 0.05 s
PING_INTERVAL == 1
\* the value SendThread.__init__ and SendThread.reset give last_ack
INITIAL_ACK == 1
\* the sequence number a window starts at (ReceiveWindow.reset, SendWindow.reset)
INITIAL_SEQ == 1

RECURSIVE Pow2(_)
Pow2(n) == IF n = 0 THEN 1 ELSE 2 * Pow2(n - 1)

\* 1 << seq_bits
MaxSeq == Pow2(SeqBits)
Seqs == 0 .. MaxSeq - 1

(***************************************************************************)
(* Packets.  A received packet carries the seq and ack of its frame.       *)
(***************************************************************************)
NoPkt == [kind |-> "None", seq |-> 0, ack |-> 0]

\* Packet.is_oob: a function of the packet's kind; pings are out-of-band.
is_oob(pkt) == pkt.kind \in {"Ping", "Event"}

(***************************************************************************)
(* Sequence arithmetic modulo 2^seq_bits.                                  *)
(***************************************************************************)
\* how far `to` lies ahead of `from`
Fwd(from, to) == (to - from + MaxSeq) % MaxSeq

\* seq is behind expected: its forward distance exceeds half the sequence space
Behind(seq, expected) == Fwd(expected, seq) > MaxSeq \div 2

(***************************************************************************)
(* ReceiveWindow: [expected_seq, buffer], buffer a function seq -> packet. *)
(***************************************************************************)
RW_initial == [expected_seq |-> INITIAL_SEQ, buffer |-> <<>>]

RW_reset(w) == RW_initial

RW_is_out_of_order(w, seq) ==
    \/ Behind(seq, w.expected_seq)
    \/ Fwd(w.expected_seq, seq) >= WindowSize

RW_exists(w, seq) == seq \in DOMAIN w.buffer

RW_put(w, seq, pkt) ==
    [w EXCEPT !.buffer =
        [s \in (DOMAIN w.buffer) \cup {seq} |-> IF s = seq THEN pkt ELSE w.buffer[s]]]

RW_is_expected(w, seq) == seq = w.expected_seq

\* the packet at expected_seq (NoPkt when it is missing) and the window after the call
RW_get(w) ==
    IF w.expected_seq \in DOMAIN w.buffer
    THEN [pkt |-> w.buffer[w.expected_seq],
          window |-> [expected_seq |-> (w.expected_seq + 1) % MaxSeq,
                      buffer |-> [s \in (DOMAIN w.buffer) \ {w.expected_seq} |-> w.buffer[s]]]]
    ELSE [pkt |-> NoPkt, window |-> w]

(***************************************************************************)
(* SendWindow: [expected_seq, next_seq, buffer].                           *)
(***************************************************************************)
SW_initial == [expected_seq |-> INITIAL_SEQ, next_seq |-> INITIAL_SEQ, buffer |-> <<>>]

SW_reset(w) == SW_initial

SW_is_out_of_order(w, seq) == Behind(seq, w.expected_seq)

\* the sequence number assigned to pkt and the window after the call
SW_put(w, pkt) ==
    [seq |-> w.next_seq,
     window |-> [w EXCEPT !.next_seq = (w.next_seq + 1) % MaxSeq,
                          !.buffer = [s \in (DOMAIN w.buffer) \cup {w.next_seq} |->
                                         IF s = w.next_seq THEN pkt ELSE w.buffer[s]]]]

\* the buffer holds as many entries as the window's size
SW_is_full(w) == Cardinality(DOMAIN w.buffer) >= WindowSize

SW_pop(w) ==
    [w EXCEPT !.expected_seq = (w.expected_seq + 1) % MaxSeq,
              !.buffer = [s \in (DOMAIN w.buffer) \ {w.expected_seq} |-> w.buffer[s]]]

VARIABLES
    recv_window,    \* ReceiveThread.window
    recv_queue,     \* ReceiveThread.queue
    send_window,    \* SendThread.window
    send_queue,     \* SendThread.queue
    last_ack,       \* SendThread.last_ack
    send_pc,        \* SendThread.run: "get", "sendto", or "dead" after an uncaught exception
    send_frame,     \* SendThread.run: the frame built from the dequeued packet
    wire,           \* the latest call of sock.sendto: its frame and whether it went out
    sock_bound,     \* the UDP socket has a local port (set by its first sendto)
    robot_seq,      \* the robot: the seq of the latest ENGINE frame it got (-1: none)
    state,          \* Client.state
    send_age,       \* now - Client.send_last, in units of 0.05 s, capped
    client_pc,      \* Client.run: "get", "ack", "cycle" or "ready"
    client_pkt,     \* Client.run: pkt
    app_pc,         \* the application thread: "idle", "waiting", "returned", "raised"
    evt_set,        \* wait_for_robot: the Event e is set
    handler_live,   \* wait_for_robot: its one-shot handler is registered and not yet run
    recv_pc,        \* ReceiveThread.run: "run", "done" after the loop's exit, or "dead"
    stop_pc,        \* Client.stop: "none", "join_client", "join_send", "join_recv", "closed"
    ack_pre,        \* history: the Send Window when the current SendThread.ack call began
    log,            \* history: connect() calls and the run-loop's dispatches, in order
    rx_class,       \* history: what the last datagram or packet received was (Classify)
    n_rx,           \* history: packets received from the robot
    n_app,          \* history: calls of send() and disconnect() by the application
    n_frames        \* history: frames the SendThread has built

recvVars == <<recv_window, recv_queue>>
sendVars == <<send_window, send_queue, last_ack, send_pc, send_frame>>
sockVars == <<wire, sock_bound, robot_seq>>
clientVars == <<state, send_age, client_pc, client_pkt>>
appVars == <<app_pc, evt_set, handler_live>>
loopVars == <<recv_pc, stop_pc>>
histVars == <<ack_pre, log, rx_class, n_rx, n_app, n_frames>>
vars == <<recvVars, sendVars, sockVars, clientVars, appVars, loopVars, histVars>>

\* the stop flags, set one after the other by Client.stop
Client_stop_flag == stop_pc # "none"
SendThread_stop_flag == stop_pc \in {"join_send", "join_recv", "closed"}
ReceiveThread_stop_flag == stop_pc \in {"join_recv", "closed"}

NoFrame == [type |-> "NONE", first_seq |-> 0, seq |-> 0, ack |-> 0, pkts |-> <<>>]

(***************************************************************************)
(* The state after Client.__init__ and Client.start.                       *)
(***************************************************************************)
Init ==
    /\ recv_window = RW_initial
    /\ recv_queue = <<>>
    /\ send_window = SW_initial
    /\ send_queue = <<>>
    /\ last_ack = INITIAL_ACK
    /\ send_pc = "get"
    /\ send_frame = NoFrame
    /\ wire = <<>>
    /\ sock_bound = FALSE
    /\ robot_seq = -1
    /\ state = IDLE
    /\ send_age = PING_INTERVAL + 1
    /\ client_pc = "get"
    /\ client_pkt = NoPkt
    /\ app_pc = "idle"
    /\ evt_set = FALSE
    /\ handler_live = FALSE
    /\ recv_pc = "run"
    /\ stop_pc = "none"
    /\ ack_pre = SW_initial
    /\ log = <<>>
    /\ rx_class = "none"
    /\ n_rx = 0
    /\ n_app = 0
    /\ n_frames = 0

(***************************************************************************)
(* ReceiveThread.                                                          *)
(***************************************************************************)
deliver(queue, pkt) == Append(queue, pkt)

\* deliver_sequence: pop and deliver while the expected packet is buffered
RECURSIVE deliver_sequence(_, _)
deliver_sequence(w, queue) ==
    LET r == RW_get(w)
    IN  IF r.pkt = NoPkt
        THEN [window |-> w, queue |-> queue]
        ELSE deliver_sequence(r.window, deliver(queue, r.pkt))

\* handle_pkt with the window's reordering left out: a packet is delivered as it arrives
handle_pkt_DeliverOnArrival(pkt) ==
    IF is_oob(pkt)
    THEN /\ recv_queue' = deliver(recv_queue, pkt)
         /\ UNCHANGED recv_window
    ELSE IF RW_is_out_of_order(recv_window, pkt.seq)
    THEN UNCHANGED <<recv_window, recv_queue>>
    ELSE IF RW_exists(recv_window, pkt.seq)
    THEN UNCHANGED <<recv_window, recv_queue>>
    ELSE /\ recv_queue' = deliver(recv_queue, pkt)
         /\ recv_window' = [recv_window EXCEPT !.expected_seq = (pkt.seq + 1) % MaxSeq]

\* handle_pkt without the is_out_of_order test
handle_pkt_NoOrderCheck(pkt) ==
    IF is_oob(pkt)
    THEN /\ recv_queue' = deliver(recv_queue, pkt)
         /\ UNCHANGED recv_window
    ELSE IF RW_exists(recv_window, pkt.seq)
    THEN UNCHANGED <<recv_window, recv_queue>>
    ELSE LET w == RW_put(recv_window, pkt.seq, pkt)
         IN  IF RW_is_expected(w, pkt.seq)
             THEN LET r == deliver_sequence(w, recv_queue)
                  IN  /\ recv_window' = r.window
                      /\ recv_queue' = r.queue
             ELSE /\ recv_window' = w
                  /\ UNCHANGED recv_queue

\* handle_pkt without the is_oob shortcut: every packet goes through the window
handle_pkt_OobThroughWindow(pkt) ==
    IF RW_is_out_of_order(recv_window, pkt.seq)
    THEN UNCHANGED <<recv_window, recv_queue>>
    ELSE IF RW_exists(recv_window, pkt.seq)
    THEN UNCHANGED <<recv_window, recv_queue>>
    ELSE LET w == RW_put(recv_window, pkt.seq, pkt)
         IN  IF RW_is_expected(w, pkt.seq)
             THEN LET r == deliver_sequence(w, recv_queue)
                  IN  /\ recv_window' = r.window
                      /\ recv_queue' = r.queue
             ELSE /\ recv_window' = w
                  /\ UNCHANGED recv_queue

handle_pkt(pkt) ==
    IF is_oob(pkt)
    THEN /\ recv_queue' = deliver(recv_queue, pkt)
         /\ UNCHANGED recv_window
    ELSE IF RW_is_out_of_order(recv_window, pkt.seq)
    THEN UNCHANGED <<recv_window, recv_queue>>
    ELSE IF RW_exists(recv_window, pkt.seq)
    THEN UNCHANGED <<recv_window, recv_queue>>
    ELSE LET w == RW_put(recv_window, pkt.seq, pkt)
         IN  IF RW_is_expected(w, pkt.seq)
             THEN LET r == deliver_sequence(w, recv_queue)
                  IN  /\ recv_window' = r.window
                      /\ recv_queue' = r.queue
             ELSE /\ recv_window' = w
                  /\ UNCHANGED recv_queue

(***************************************************************************)
(* The socket.  Frames are [type, first_seq, seq, ack, pkts].              *)
(***************************************************************************)
Frame(type, first_seq, seq, ack, pkts) ==
    [type |-> type, first_seq |-> first_seq, seq |-> seq, ack |-> ack, pkts |-> pkts]

\* sock.sendto(frame, address): it returns and the frame went out, or it raises
\* InterruptedError; wire holds the latest call
sendto(w, frame, out) == <<[frame |-> frame, out |-> out]>>

\* the robot takes a frame: a RESET frame starts a session, an ENGINE frame is
\* the latest it has to acknowledge
robot_receives(rs, frame) ==
    IF frame.type = "ENGINE" THEN frame.seq
    ELSE IF frame.type = "RESET" THEN -1
    ELSE rs

\* the ack the robot sends: the latest sequence it got, 0 when it got none
RobotAck == IF robot_seq = -1 THEN 0 ELSE robot_seq

\* the ack values that may arrive: the robot's latest ack or, when a datagram is
\* overtaken by a later one, the ack before it
RobotAcks ==
    IF robot_seq = -1 THEN {0} ELSE {RobotAck, (RobotAck + MaxSeq - 1) % MaxSeq}

(***************************************************************************)
(* SendThread.                                                             *)
(***************************************************************************)
\* build_frame as it would be if a ping took a sequence number like any packet
build_frame_PingSequenced(w, pkt, ack) ==
    IF SW_is_full(w)
    THEN [raised |-> TRUE, frame |-> NoFrame, window |-> w]
    ELSE LET r == SW_put(w, pkt)
         IN  [raised |-> FALSE,
              frame |-> Frame(IF pkt = "Ping" THEN "PING" ELSE "ENGINE", r.seq, r.seq, ack, <<pkt>>),
              window |-> r.window]

\* The frame SendThread.run builds from a dequeued packet and the window after it;
\* raised: window.put failed (the window is full), which run does not catch
build_frame(w, pkt, ack) ==
    IF pkt = "Ping"
    THEN [raised |-> FALSE, frame |-> Frame("PING", 0, 0, ack, <<pkt>>), window |-> w]
    ELSE IF SW_is_full(w)
    THEN [raised |-> TRUE, frame |-> NoFrame, window |-> w]
    ELSE LET r == SW_put(w, pkt)
         IN  [raised |-> FALSE, frame |-> Frame("ENGINE", r.seq, r.seq, ack, <<pkt>>),
              window |-> r.window]

\* SendThread.run, from queue.get to the frame's construction; an exception of
\* window.put ends the thread
SendThread_build ==
    /\ ~SendThread_stop_flag
    /\ send_pc = "get"
    /\ send_queue # <<>>
    /\ LET b == build_frame(send_window, Head(send_queue), last_ack)
       IN  /\ send_window' = b.window
           /\ send_frame' = b.frame
           /\ send_pc' = IF b.raised THEN "dead" ELSE "sendto"
    /\ send_queue' = Tail(send_queue)
    /\ UNCHANGED <<loopVars, last_ack, recvVars, sockVars, clientVars, appVars, ack_pre, log, rx_class,
                   n_rx, n_app>>

\* the same, at most max times
SendThread_get(max) ==
    /\ n_frames < max
    /\ n_frames' = n_frames + 1
    /\ SendThread_build

\* SendThread.run, sock.sendto: the frame goes out, or InterruptedError and `continue`
SendThread_sendto ==
    /\ send_pc = "sendto"
    /\ \E out \in BOOLEAN :
          /\ wire' = sendto(wire, send_frame, out)
          /\ sock_bound' = (sock_bound \/ out)
          /\ robot_seq' = IF out THEN robot_receives(robot_seq, send_frame) ELSE robot_seq
    /\ send_pc' = "get"
    /\ send_frame' = NoFrame
    /\ UNCHANGED <<loopVars, send_window, send_queue, last_ack, recvVars, clientVars, appVars, histVars>>

\* SendThread.ack, one iteration of `while self.window.expected_seq <= seq`
ack_continues(w, seq) == w.expected_seq <= seq

\* SendThread.reset
SendThread_reset ==
    /\ send_window' = SW_reset(send_window)
    /\ last_ack' = INITIAL_ACK

(***************************************************************************)
(* Client: the application's calls.                                        *)
(***************************************************************************)
\* Client.send, on the pair [age, queue] of send_age and send_queue
send(c, pkt) == [age |-> 0, queue |-> Append(c.queue, pkt)]

RECURSIVE send_all(_, _)
send_all(c, pkts) ==
    IF pkts = <<>> THEN c ELSE send_all(send(c, Head(pkts)), Tail(pkts))

Count(seq, x) == Cardinality({i \in 1 .. Len(seq) : seq[i] = x})

\* Client.connect
connect ==
    /\ stop_pc = "none"
    /\ app_pc # "waiting"
    /\ Count(log, "connect") < MaxConnects
    /\ state' = CONNECTING
    /\ SendThread_reset
    /\ \E out \in BOOLEAN :
          /\ wire' = sendto(wire, Frame("RESET", 1, 1, 0, <<>>), out)
          /\ sock_bound' = (sock_bound \/ out)
          /\ robot_seq' = IF out THEN robot_receives(robot_seq, Frame("RESET", 1, 1, 0, <<>>))
                                 ELSE robot_seq
    /\ log' = Append(log, "connect")
    /\ UNCHANGED <<loopVars, send_queue, send_pc, send_frame, recvVars, send_age, client_pc,
                   client_pkt, appVars, ack_pre, rx_class, n_rx, n_app, n_frames>>

\* Client.send called by the application, at most max times
AppSend(max) ==
    /\ stop_pc = "none"
    /\ app_pc # "waiting"
    /\ n_app < max
    /\ LET c == send([age |-> send_age, queue |-> send_queue], "Other")
       IN  send_age' = c.age /\ send_queue' = c.queue
    /\ n_app' = n_app + 1
    /\ UNCHANGED <<loopVars, send_window, last_ack, send_pc, send_frame, recvVars, sockVars, state,
                   client_pc, client_pkt, appVars, ack_pre, log, rx_class, n_rx, n_frames>>

\* disconnect as it would be without the check of the state
disconnect_AlwaysSends ==
    /\ stop_pc = "none"
    /\ app_pc # "waiting"
    /\ n_app < MaxAppSends
    /\ LET c == send([age |-> send_age, queue |-> send_queue], "Disconnect")
       IN  send_age' = c.age /\ send_queue' = c.queue
    /\ n_app' = n_app + 1
    /\ UNCHANGED <<loopVars, send_window, last_ack, send_pc, send_frame, recvVars, sockVars, state,
                   client_pc, client_pkt, appVars, ack_pre, log, rx_class, n_rx, n_frames>>

\* disconnect as it would be if it also put the state back to IDLE
disconnect_ReturnsToIdle ==
    /\ stop_pc = "none"
    /\ app_pc # "waiting"
    /\ n_app < MaxAppSends
    /\ IF state # CONNECTED
       THEN UNCHANGED <<send_age, send_queue, state>>
       ELSE LET c == send([age |-> send_age, queue |-> send_queue], "Disconnect")
            IN  send_age' = c.age /\ send_queue' = c.queue /\ state' = IDLE
    /\ n_app' = n_app + 1
    /\ UNCHANGED <<loopVars, send_window, last_ack, send_pc, send_frame, recvVars, sockVars,
                   client_pc, client_pkt, appVars, ack_pre, log, rx_class, n_rx, n_frames>>

\* Client.disconnect
disconnect ==
    /\ stop_pc = "none"
    /\ app_pc # "waiting"
    /\ n_app < MaxAppSends
    /\ IF state # CONNECTED
       THEN UNCHANGED <<send_age, send_queue>>
       ELSE LET c == send([age |-> send_age, queue |-> send_queue], "Disconnect")
            IN  send_age' = c.age /\ send_queue' = c.queue
    /\ n_app' = n_app + 1
    /\ UNCHANGED <<loopVars, send_window, last_ack, send_pc, send_frame, recvVars, sockVars, state,
                   client_pc, client_pkt, appVars, ack_pre, log, rx_class, n_rx, n_frames>>

\* Client.wait_for_robot, up to e.wait: a new Event, and its one-shot handler registered
wait_for_robot ==
    /\ stop_pc = "none"
    /\ app_pc # "waiting"
    /\ app_pc' = "waiting"
    /\ evt_set' = FALSE
    /\ handler_live' = TRUE
    /\ UNCHANGED <<loopVars, recvVars, sendVars, sockVars, clientVars, histVars>>

\* wait_for_robot as it would be if it ignored the result of e.wait
wait_for_robot_return_IgnoresWait ==
    /\ app_pc = "waiting"
    /\ app_pc' = "returned"
    /\ UNCHANGED <<loopVars, evt_set, handler_live, recvVars, sendVars, sockVars, clientVars, histVars>>

\* e.wait(timeout) returns True: the Event is set
wait_for_robot_return ==
    /\ app_pc = "waiting"
    /\ evt_set
    /\ app_pc' = "returned"
    /\ UNCHANGED <<loopVars, evt_set, handler_live, recvVars, sendVars, sockVars, clientVars, histVars>>

\* e.wait(timeout) returns False at the deadline: TimeoutError.  The handler stays
\* registered, bound to an Event nobody waits on any more.
wait_for_robot_timeout ==
    /\ app_pc = "waiting"
    /\ ~evt_set
    /\ app_pc' = "raised"
    /\ handler_live' = FALSE
    /\ UNCHANGED <<loopVars, evt_set, recvVars, sendVars, sockVars, clientVars, histVars>>

(***************************************************************************)
(* Client.run.                                                             *)
(***************************************************************************)
\* _initialize_robot's packets as they would be with the image before NextFrame
InitPackets_ImageFirst ==
    <<"Enable25", "Enable4b", "Enable9f">> \o
    <<"DisplayImage", "NextFrame", "DisplayImage", "NextFrame", "DisplayImage", "NextFrame",
      "DisplayImage", "NextFrame", "DisplayImage", "NextFrame", "DisplayImage", "NextFrame",
      "DisplayImage", "NextFrame">>

\* _initialize_robot's packets
InitPackets ==
    <<"Enable25", "Enable4b", "Enable9f">> \o
    <<"NextFrame", "DisplayImage", "NextFrame", "DisplayImage", "NextFrame", "DisplayImage",
      "NextFrame", "DisplayImage", "NextFrame", "DisplayImage", "NextFrame", "DisplayImage",
      "NextFrame", "DisplayImage">>

\* _on_connect as it would be if it left the state alone
on_connect_KeepsState(st) == st

\* _on_connect: the state it leaves
on_connect(st) == CONNECTED

\* queue.get and the entry of send_thread.ack(pkt.ack); or Empty after RUN_INTERVAL
Client_get ==
    /\ ~Client_stop_flag
    /\ client_pc = "get"
    /\ IF recv_queue # <<>>
       THEN /\ client_pkt' = Head(recv_queue)
            /\ recv_queue' = Tail(recv_queue)
            /\ ack_pre' = send_window
            /\ client_pc' = IF SW_is_out_of_order(send_window, Head(recv_queue).ack)
                            THEN "cycle" ELSE "ack"
       ELSE /\ client_pkt' = NoPkt
            /\ client_pc' = "cycle"
            /\ UNCHANGED <<recv_queue, ack_pre>>
    /\ UNCHANGED <<loopVars, recv_window, sendVars, sockVars, state, send_age, appVars,
                   log, rx_class, n_rx, n_app, n_frames>>

\* SendThread.ack's loop, run by the Client's thread: one test and one pop
Client_ack ==
    /\ client_pc = "ack"
    /\ IF ack_continues(send_window, client_pkt.ack)
       THEN /\ send_window' = SW_pop(send_window)
            /\ UNCHANGED client_pc
       ELSE /\ client_pc' = "cycle"
            /\ UNCHANGED send_window
    /\ UNCHANGED <<loopVars, send_queue, last_ack, send_pc, send_frame, recvVars, sockVars, state,
                   send_age, client_pkt, appVars, histVars>>

\* the keepalive test as it would be without the check of the state
ping_due_AnyState(st, age) == age > PING_INTERVAL

\* Client.run's keepalive test: CONNECTED and more than PING_INTERVAL since send_last
ping_due(st, age) == st = CONNECTED /\ age > PING_INTERVAL

\* the update of last_ack as it would be if every packet's seq were taken
next_last_ack_OobToo(la, pkt) == IF pkt # NoPkt THEN pkt.seq ELSE la

\* Client.run: set_last_ack(pkt.seq) for a packet that is not out-of-band;
\* the value of last_ack after it
next_last_ack(la, pkt) == IF pkt # NoPkt /\ ~is_oob(pkt) THEN pkt.seq ELSE la

\* the rest of the cycle: set_last_ack, the keepalive ping, the dispatch of the packet
\* (_on_connect; _on_firmware_signature up to _initialize_robot's sleep)
Client_cycle ==
    /\ client_pc = "cycle"
    /\ last_ack' = next_last_ack(last_ack, client_pkt)
    /\ LET c0 == [age |-> send_age, queue |-> send_queue]
           c1 == IF ping_due(state, send_age) THEN send(c0, "Ping") ELSE c0
           c2 == IF client_pkt.kind = "FirmwareSignature" THEN send_all(c1, InitPackets) ELSE c1
       IN  send_age' = c2.age /\ send_queue' = c2.queue
    /\ state' = IF client_pkt.kind = "Connect" THEN on_connect(state) ELSE state
    /\ client_pc' = IF client_pkt.kind = "FirmwareSignature" THEN "ready" ELSE "get"
    /\ log' = IF client_pkt.kind \in {"Connect", "FirmwareSignature"}
              THEN Append(log, client_pkt.kind) ELSE log
    /\ UNCHANGED <<loopVars, send_window, send_pc, send_frame, recvVars, sockVars, client_pkt, appVars,
                   ack_pre, rx_class, n_rx, n_app, n_frames>>

\* after the sleep: dispatch(EvtRobotReady), which runs and removes wait_for_robot's
\* one-shot handler, then dispatch(EvtRobotFound)
Client_ready ==
    /\ client_pc = "ready"
    /\ IF handler_live
       THEN evt_set' = TRUE /\ handler_live' = FALSE
       ELSE UNCHANGED <<evt_set, handler_live>>
    /\ log' = Append(log, "EvtRobotReady")
    /\ client_pc' = "get"
    /\ UNCHANGED <<loopVars, recvVars, sendVars, sockVars, state, send_age, client_pkt, app_pc,
                   ack_pre, rx_class, n_rx, n_app, n_frames>>

\* time passes: one more unit of 0.05 s since Client.send_last
Tick ==
    /\ send_age <= PING_INTERVAL
    /\ Count(send_queue, "Ping") < MaxPendingPings
    /\ send_age' = send_age + 1
    /\ UNCHANGED <<loopVars, recvVars, sendVars, sockVars, state, client_pc, client_pkt, appVars, histVars>>

\* the non-out-of-band packets of a queue, in queue order
Ordered(queue) == SelectSeq(queue, LAMBDA p : ~is_oob(p))

\* What an arriving packet is to the Receive Window as it stands: out-of-band, a
\* repeat of a buffered packet, a repeat of a packet that was delivered and is
\* now behind expected_seq, another packet outside the window, or a new one.
Classify(pkt) ==
    IF is_oob(pkt) THEN "oob"
    ELSE IF pkt.seq \in DOMAIN recv_window.buffer THEN "buffered"
    ELSE IF /\ Behind(pkt.seq, recv_window.expected_seq)
            /\ \E i \in 1 .. Len(recv_queue) :
                   ~is_oob(recv_queue[i]) /\ recv_queue[i].seq = pkt.seq
         THEN "delivered"
    ELSE IF RW_is_out_of_order(recv_window, pkt.seq) THEN "outside"
    ELSE "new"

(***************************************************************************)
(* SpecRecv: ReceiveThread.handle_pkt alone, fed packets in any order.     *)
(***************************************************************************)
RecvPackets ==
    [kind : {"Other"}, seq : Seqs, ack : {0}] \cup [kind : {"Ping"}, seq : {0, 2}, ack : {0}]

NumOob(queue) == Cardinality({i \in 1 .. Len(queue) : is_oob(queue[i])})

RecvArrive ==
    \E pkt \in RecvPackets :
        /\ Len(recv_queue) < MaxRecvQueue
        /\ is_oob(pkt) => NumOob(recv_queue) < MaxOob
        /\ handle_pkt(pkt)
        /\ rx_class' = Classify(pkt)
        /\ UNCHANGED <<loopVars, sendVars, sockVars, clientVars, appVars, ack_pre, log, n_rx, n_app, n_frames>>

NextRecv == RecvArrive

SpecRecv == Init /\ [][NextRecv]_vars

(***************************************************************************)
(* ReceiveThread.run: a datagram of the robot's arrives (the socket has a  *)
(* port from its first sendto on) and its packet is handled.               *)
(***************************************************************************)
ReceiveThread_run(packets, max) ==
    \E pkt \in packets :
        /\ recv_pc = "run"
        /\ ~ReceiveThread_stop_flag
        /\ sock_bound
        /\ n_rx < max
        /\ handle_pkt(pkt)
        /\ n_rx' = n_rx + 1
        /\ rx_class' = "frame"
        /\ UNCHANGED <<loopVars, sendVars, sockVars, clientVars, appVars, ack_pre, log, n_app,
                       n_frames>>

\* ReceiveThread.run: a datagram arrives that Frame.from_bytes cannot decode
\* (corrupt or truncated).  from_bytes fails with an error, run has no handler
\* for it, and the exception ends the thread.
ReceiveThread_run_malformed(max) ==
    /\ recv_pc = "run"
    /\ ~ReceiveThread_stop_flag
    /\ sock_bound
    /\ n_rx < max
    /\ recv_pc' = "dead"
    /\ n_rx' = n_rx + 1
    /\ rx_class' = "malformed"
    /\ UNCHANGED <<stop_pc, recvVars, sendVars, sockVars, clientVars, appVars, ack_pre, log,
                   n_app, n_frames>>

(***************************************************************************)
(* Spec: the Client with its threads and the application.  The robot sends *)
(* its handshake packets, each any number of times: Connect as its first   *)
(* packet, FirmwareSignature as its second or, when it sends no Connect,   *)
(* as its first.                                                           *)
(***************************************************************************)
RobotPackets ==
    [kind : {"Connect"}, seq : {1}, ack : {RobotAck}]
        \cup [kind : {"FirmwareSignature"}, seq : {1, 2}, ack : {RobotAck}]

Next ==
    \/ connect
    \/ AppSend(MaxAppSends)
    \/ disconnect
    \/ wait_for_robot
    \/ wait_for_robot_return
    \/ wait_for_robot_timeout
    \/ ReceiveThread_run(RobotPackets, MaxRx)
    \/ SendThread_get(MaxFrames)
    \/ SendThread_sendto
    \/ Client_get
    \/ Client_ack
    \/ Client_cycle
    \/ Client_ready

Spec == Init /\ [][Next]_vars

(***************************************************************************)
(* SpecSend: the Send Window under the application's sends, the            *)
(* SendThread, and the acks of the packets the run-loop takes (pings of    *)
(* the robot's carrying its ack of what it got).                           *)
(***************************************************************************)
AckPackets == [kind : {"Ping"}, seq : {0}, ack : RobotAcks]

\* The state after k - 1 packets were sent and acknowledged one by one since the
\* construction (k = INITIAL_SEQ: the state after the construction)
InitSend ==
    \E k \in 1 .. MaxSeq - 1 :
        /\ recv_window = RW_initial
        /\ recv_queue = <<>>
        /\ send_window = [expected_seq |-> k, next_seq |-> k, buffer |-> <<>>]
        /\ send_queue = <<>>
        /\ last_ack = INITIAL_ACK
        /\ send_pc = "get"
        /\ send_frame = NoFrame
        /\ wire = IF k = INITIAL_SEQ THEN <<>>
                  ELSE <<[frame |-> Frame("ENGINE", k - 1, k - 1, INITIAL_ACK, <<"Other">>),
                          out |-> TRUE]>>
        /\ sock_bound = (k # INITIAL_SEQ)
        /\ robot_seq = IF k = INITIAL_SEQ THEN -1 ELSE k - 1
        /\ state = IDLE
        /\ send_age = 0
        /\ client_pc = "get"
        /\ client_pkt = NoPkt
        /\ app_pc = "idle"
        /\ evt_set = FALSE
        /\ handler_live = FALSE
        /\ recv_pc = "run"
        /\ stop_pc = "none"
        /\ ack_pre = [expected_seq |-> k, next_seq |-> k, buffer |-> <<>>]
        /\ log = <<>>
        /\ rx_class = "none"
        /\ n_rx = 0
        /\ n_app = 0
        /\ n_frames = 0

NextSend ==
    \/ AppSend(MaxWindowSends)
    \/ ReceiveThread_run(AckPackets, MaxAckRx)
    \/ SendThread_get(MaxWindowSends)
    \/ SendThread_sendto
    \/ Client_get
    \/ Client_ack
    \/ Client_cycle

SpecSend == InitSend /\ [][NextSend]_vars

(***************************************************************************)
(* Client.stop and the ends of the three loops.                            *)
(***************************************************************************)
\* Client.stop, line 1: the Client's stop flag is set; join(self) begins
stop ==
    /\ stop_pc = "none"
    /\ app_pc # "waiting"
    /\ stop_pc' = "join_client"
    /\ UNCHANGED <<recv_pc, recvVars, sendVars, sockVars, clientVars, appVars, histVars>>

\* join(self) returns: the run-loop has ended; send_thread.stop() sets its flag
stop_send_thread ==
    /\ stop_pc = "join_client"
    /\ client_pc = "done"
    /\ stop_pc' = "join_send"
    /\ UNCHANGED <<recv_pc, recvVars, sendVars, sockVars, clientVars, appVars, histVars>>

\* send_thread.join() returns (the thread ended, by its flag or by an exception);
\* recv_thread.stop() sets its flag
stop_recv_thread ==
    /\ stop_pc = "join_send"
    /\ send_pc \in {"done", "dead"}
    /\ stop_pc' = "join_recv"
    /\ UNCHANGED <<recv_pc, recvVars, sendVars, sockVars, clientVars, appVars, histVars>>

\* recv_thread.join() returns; sock.close(), del_all_handlers()
stop_close ==
    /\ stop_pc = "join_recv"
    /\ recv_pc \in {"done", "dead"}
    /\ stop_pc' = "closed"
    /\ UNCHANGED <<recv_pc, recvVars, sendVars, sockVars, clientVars, appVars, histVars>>

\* `while not self.stop_flag` of Client.run, SendThread.run and ReceiveThread.run,
\* found false at the head of the loop
Client_exit ==
    /\ client_pc = "get"
    /\ Client_stop_flag
    /\ client_pc' = "done"
    /\ UNCHANGED <<loopVars, recvVars, sendVars, sockVars, state, send_age, client_pkt, appVars,
                   histVars>>

SendThread_exit ==
    /\ send_pc = "get"
    /\ SendThread_stop_flag
    /\ send_pc' = "done"
    /\ UNCHANGED <<loopVars, recvVars, send_window, send_queue, last_ack, send_frame, sockVars,
                   clientVars, appVars, histVars>>

ReceiveThread_exit ==
    /\ recv_pc = "run"
    /\ ReceiveThread_stop_flag
    /\ recv_pc' = "done"
    /\ UNCHANGED <<stop_pc, recvVars, sendVars, sockVars, clientVars, appVars, histVars>>

(***************************************************************************)
(* SpecLoops: the three loops from their start to their end.  The          *)
(* application sends and stops the client; the robot's datagrams are pings *)
(* carrying its ack, or cannot be decoded.  Every thread that can take a   *)
(* step eventually takes it.                                               *)
(***************************************************************************)
NextLoops ==
    \/ AppSend(MaxLoopSends)
    \/ SendThread_get(MaxLoopSends)
    \/ SendThread_sendto
    \/ ReceiveThread_run(AckPackets, MaxLoopRx)
    \/ ReceiveThread_run_malformed(MaxLoopRx)
    \/ Client_get
    \/ Client_ack
    \/ Client_cycle
    \/ stop
    \/ stop_send_thread
    \/ stop_recv_thread
    \/ stop_close
    \/ Client_exit
    \/ SendThread_exit
    \/ ReceiveThread_exit

FairLoops ==
    /\ WF_vars(SendThread_get(MaxLoopSends))
    /\ WF_vars(SendThread_sendto)
    /\ WF_vars(Client_get)
    /\ WF_vars(Client_ack)
    /\ WF_vars(Client_cycle)
    /\ WF_vars(stop_send_thread)
    /\ WF_vars(stop_recv_thread)
    /\ WF_vars(stop_close)
    /\ WF_vars(Client_exit)
    /\ WF_vars(SendThread_exit)
    /\ WF_vars(ReceiveThread_exit)

SpecLoops == InitSend /\ [][NextLoops]_vars /\ FairLoops

(***************************************************************************)
(* The keepalive: the client connects, the robot's Connect or a ping of    *)
(* its arrives, time passes, the run loop cycles and the SendThread        *)
(* empties its queue for as long as the program runs.                      *)
(***************************************************************************)
PingPackets ==
    [kind : {"Connect"}, seq : {1}, ack : {RobotAck}]
        \cup [kind : {"Ping"}, seq : {0}, ack : {RobotAck}]

\* one iteration of SendThread.run up to the frame, any number of times
SendThread_drain == SendThread_build /\ UNCHANGED n_frames

NextPing ==
    \/ connect
    \/ AppSend(MaxPingSends)
    \/ ReceiveThread_run(PingPackets, MaxPingRx)
    \/ SendThread_drain
    \/ SendThread_sendto
    \/ Client_get
    \/ Client_ack
    \/ Client_cycle
    \/ Tick

\* the threads are scheduled again and again, and time passes
FairPing ==
    /\ WF_vars(SendThread_drain)
    /\ WF_vars(SendThread_sendto)
    /\ WF_vars(Client_get)
    /\ WF_vars(Client_ack)
    /\ WF_vars(Client_cycle)
    /\ WF_vars(Tick)

SpecPing == Init /\ [][NextPing]_vars /\ FairPing

(***************************************************************************)
(* The acks: the client connects and sends, the robot's packets arrive     *)
(* (Connect, one more packet in sequence, pings) and the run loop takes    *)
(* them one by one.                                                        *)
(***************************************************************************)
TakePackets ==
    [kind : {"Connect"}, seq : {1}, ack : {RobotAck}]
        \cup [kind : {"Other"}, seq : {2}, ack : {RobotAck}]
        \cup [kind : {"Ping"}, seq : {0}, ack : {RobotAck}]

NextTake ==
    \/ connect
    \/ AppSend(MaxPingSends)
    \/ ReceiveThread_run(TakePackets, MaxTakeRx)
    \/ SendThread_drain
    \/ SendThread_sendto
    \/ Client_get
    \/ Client_ack
    \/ Client_cycle

SpecTake == Init /\ [][NextTake]_vars

(***************************************************************************)
(* The initialization: connect() was called, the robot's FirmwareSignature *)
(* arrives and its pings carry its acks; the run loop dispatches and the   *)
(* SendThread sends what _initialize_robot enqueued.                       *)
(***************************************************************************)
InitRobotPackets ==
    [kind : {"FirmwareSignature"}, seq : {1}, ack : {RobotAck}]
        \cup [kind : {"Ping"}, seq : {0}, ack : {RobotAck}]

\* the state after the construction and connect(), the RESET frame sent
InitConnected ==
    /\ recv_window = RW_initial
    /\ recv_queue = <<>>
    /\ send_window = SW_initial
    /\ send_queue = <<>>
    /\ last_ack = INITIAL_ACK
    /\ send_pc = "get"
    /\ send_frame = NoFrame
    /\ wire = sendto(<<>>, Frame("RESET", 1, 1, 0, <<>>), TRUE)
    /\ sock_bound = TRUE
    /\ robot_seq = -1
    /\ state = CONNECTING
    /\ send_age = PING_INTERVAL + 1
    /\ client_pc = "get"
    /\ client_pkt = NoPkt
    /\ app_pc = "idle"
    /\ evt_set = FALSE
    /\ handler_live = FALSE
    /\ recv_pc = "run"
    /\ stop_pc = "none"
    /\ ack_pre = SW_initial
    /\ log = <<"connect">>
    /\ rx_class = "none"
    /\ n_rx = 0
    /\ n_app = 0
    /\ n_frames = 0

NextInit ==
    \/ ReceiveThread_run(InitRobotPackets, MaxInitRx)
    \/ SendThread_get(MaxInitFrames)
    \/ SendThread_sendto
    \/ Client_get
    \/ Client_ack
    \/ Client_cycle
    \/ Client_ready

SpecInit == InitConnected /\ [][NextInit]_vars

(***************************************************************************)
(* C1: whatever the order of arrival, the non-out-of-band packets on the   *)
(* ReceiveThread's queue carry consecutive sequence numbers (modulo        *)
(* 2^seq_bits) starting at the window's initial expected_seq: the i-th of  *)
(* them has sequence INITIAL_SEQ + i - 1, so none is enqueued before all   *)
(* its predecessors and there are no gaps.                                 *)
(***************************************************************************)
C1_OrderedDelivery ==
    \A i \in 1 .. Len(Ordered(recv_queue)) :
        Ordered(recv_queue)[i].seq = (INITIAL_SEQ + i - 1) % MaxSeq

\* deliveries have wrapped past sequence 0 and a packet that arrived early waits
C1_Witness ==
    /\ Len(Ordered(recv_queue)) >= MaxSeq
    /\ DOMAIN recv_window.buffer # {}

(***************************************************************************)
(* C2: a repeated arrival of a non-out-of-band packet, whether its first   *)
(* copy is still buffered or was delivered and is now behind expected_seq, *)
(* enqueues nothing and leaves the window's buffer and expected_seq as     *)
(* they were (so the sequence is enqueued once).                           *)
(***************************************************************************)
C2_DuplicateIgnored ==
    [][rx_class' \in {"buffered", "delivered"} => UNCHANGED <<recv_window, recv_queue>>]_vars

\* a repeat of a delivered packet has arrived while another packet is buffered
C2_Witness ==
    /\ rx_class = "delivered"
    /\ DOMAIN recv_window.buffer # {}

(***************************************************************************)
(* C3: an out-of-band packet is appended to the queue in the call that     *)
(* receives it, whatever the window holds, and the window is unchanged.    *)
(***************************************************************************)
C3_OobBypassesWindow ==
    [][rx_class' = "oob" =>
          /\ \E pkt \in RecvPackets : is_oob(pkt) /\ recv_queue' = Append(recv_queue, pkt)
          /\ UNCHANGED recv_window]_vars

\* an out-of-band packet was enqueued last while the expected packet is missing
\* and a later one is buffered
C3_Witness ==
    /\ rx_class = "oob"
    /\ recv_queue # <<>>
    /\ is_oob(recv_queue[Len(recv_queue)])
    /\ DOMAIN recv_window.buffer # {}
    /\ recv_window.expected_seq \notin DOMAIN recv_window.buffer

(***************************************************************************)
(* What the log says of the time since the latest connect() call.          *)
(***************************************************************************)
LastIndex(seq, x) ==
    LET S == {i \in 1 .. Len(seq) : seq[i] = x}
    IN  IF S = {} THEN 0 ELSE CHOOSE i \in S : \A j \in S : j <= i

ConnectWasCalled == LastIndex(log, "connect") > 0

SinceConnect(x) == \E i \in (LastIndex(log, "connect") + 1) .. Len(log) : log[i] = x

\* the step is a call of connect() / the dispatch of a Connect packet
ConnectCalled == log' = Append(log, "connect")
ConnectDispatched == log' = Append(log, "Connect")

\* a Connect packet is on its way from the socket to the dispatch
ConnectPending ==
    \/ \E i \in 1 .. Len(recv_queue) : recv_queue[i].kind = "Connect"
    \/ \E s \in DOMAIN recv_window.buffer : recv_window.buffer[s].kind = "Connect"
    \/ client_pc \in {"ack", "cycle"} /\ client_pkt.kind = "Connect"

(***************************************************************************)
(* C4: after every call of connect(), from any state, the Send Window and  *)
(* the Receive Window are in their initial state, the state is CONNECTING  *)
(* and one RESET frame with first_seq = seq = 1 and no packets has been    *)
(* handed to the socket for the robot.                                     *)
(***************************************************************************)
C4_ConnectResetsBothWindows ==
    [][ConnectCalled =>
          /\ send_window' = SW_initial
          /\ recv_window' = RW_initial
          /\ state' = CONNECTING
          /\ \E out \in BOOLEAN :
                 wire' = sendto(wire, Frame("RESET", 1, 1, 0, <<>>), out)]_vars

(***************************************************************************)
(* C5: on a fresh client, connect(), then a Connect packet, then one       *)
(* FirmwareSignature packet dispatched by the run-loop take the state from *)
(* IDLE to CONNECTING to CONNECTED, and exactly one EvtRobotReady is       *)
(* dispatched: none before the FirmwareSignature, one after it, no other   *)
(* pending.                                                                *)
(***************************************************************************)
C5_Handshake ==
    /\ log = <<>> => state = IDLE
    /\ log = <<"connect">> => state = CONNECTING
    /\ log = <<"connect", "Connect">> => state = CONNECTED /\ client_pc # "ready"
    /\ log = <<"connect", "Connect", "FirmwareSignature">> =>
          state = CONNECTED /\ client_pc = "ready"
    /\ log = <<"connect", "Connect", "FirmwareSignature", "EvtRobotReady">> =>
          state = CONNECTED /\ client_pc # "ready"

\* the handshake has run to the end
C5_Witness ==
    /\ log = <<"connect", "Connect", "FirmwareSignature", "EvtRobotReady">>
    /\ state = CONNECTED

(***************************************************************************)
(* C6: wait_for_robot raises TimeoutError only if no EvtRobotReady was     *)
(* dispatched between the connect() call and the deadline; if one was, it  *)
(* returns without raising.                                                *)
(***************************************************************************)
C6_WaitSeesReady ==
    [][(app_pc = "waiting" /\ app_pc' = "raised") =>
          ~(ConnectWasCalled /\ SinceConnect("EvtRobotReady"))]_vars

(***************************************************************************)
(* C7, as claimed: if no Connect packet is received after connect(),       *)
(* wait_for_robot ends by raising the timeout error, in state CONNECTING.  *)
(***************************************************************************)
C7_NoConnectThenTimeout ==
    [][(/\ app_pc = "waiting" /\ app_pc' # "waiting"
        /\ ConnectWasCalled /\ ~SinceConnect("Connect") /\ ~ConnectPending) =>
          app_pc' = "raised" /\ state' = CONNECTING]_vars

(***************************************************************************)
(* C7, amended: if neither a Connect packet nor EvtRobotReady is           *)
(* dispatched after the connect() call, wait_for_robot ends by raising the *)
(* timeout error, and the state is CONNECTING then.                        *)
(***************************************************************************)
C7_NoConnectNoReadyThenTimeout ==
    [][(/\ app_pc = "waiting" /\ app_pc' # "waiting"
        /\ ConnectWasCalled /\ ~SinceConnect("Connect") /\ ~SinceConnect("EvtRobotReady")) =>
          app_pc' = "raised" /\ state' = CONNECTING]_vars

\* connect() was called, nothing was dispatched, and wait_for_robot has raised
C7_Witness ==
    /\ app_pc = "raised"
    /\ log = <<"connect">>
    /\ state = CONNECTING

(***************************************************************************)
(* C8, as claimed: the state changes only to CONNECTING by connect() and   *)
(* from CONNECTING to CONNECTED by the dispatch of a Connect packet.       *)
(***************************************************************************)
C8_OnlyViaConnecting ==
    [][state' # state =>
          \/ ConnectCalled /\ state' = CONNECTING
          \/ ConnectDispatched /\ state = CONNECTING /\ state' = CONNECTED]_vars

(***************************************************************************)
(* C8, amended: the state changes only to CONNECTING by connect() and to   *)
(* CONNECTED by the dispatch of a Connect packet, from CONNECTING or, when *)
(* no connect() came first, from IDLE; nothing returns it to IDLE.         *)
(***************************************************************************)
C8_StateTransitions ==
    [][state' # state =>
          \/ ConnectCalled /\ state' = CONNECTING
          \/ ConnectDispatched /\ state \in {IDLE, CONNECTING} /\ state' = CONNECTED]_vars

\* a Connect packet was dispatched before any connect(): IDLE went to CONNECTED
C8_Witness ==
    /\ log = <<"Connect">>
    /\ state = CONNECTED

(***************************************************************************)
(* C9: SendThread.ack(seq) removes every buffered entry at or before seq   *)
(* in modulo-2^seq_bits order, leaves the later entries, and leaves the    *)
(* window as it was when seq is behind expected_seq.  Stated of the window *)
(* when the call returns, for the entries it held when the call began.     *)
(***************************************************************************)
\* s is at or before seq: seq is not behind s
AtOrBefore(s, seq) == ~Behind(seq, s)

C9_AckRemovesUpTo ==
    (client_pc = "cycle" /\ client_pkt # NoPkt) =>
        IF Behind(client_pkt.ack, ack_pre.expected_seq)
        THEN /\ send_window.expected_seq = ack_pre.expected_seq
             /\ DOMAIN ack_pre.buffer \subseteq DOMAIN send_window.buffer
        ELSE \A s \in DOMAIN ack_pre.buffer :
                 AtOrBefore(s, client_pkt.ack) <=> s \notin DOMAIN send_window.buffer

(***************************************************************************)
(* C10: the Send Window changes only in a step of the SendThread's loop    *)
(* and the Receive Window only in a step of the ReceiveThread's loop.      *)
(***************************************************************************)
C10_WindowsOwnedByLoops ==
    [][/\ send_window' # send_window => (send_pc = "get" /\ send_pc' = "sendto")
       /\ recv_window' # recv_window => n_rx' = n_rx + 1]_vars

(***************************************************************************)
(* C11: the Send Window never holds more entries than its capacity, and a  *)
(* send beyond the capacity with no acknowledgement is blocked, dropped or *)
(* refused with an error: it does not end the Send Loop.                   *)
(***************************************************************************)
C11_WindowWithinCapacity ==
    /\ Cardinality(DOMAIN send_window.buffer) <= WindowSize
    /\ send_pc # "dead"

(***************************************************************************)
(* C12: a datagram that does not decode as a Frame is dropped: no packet   *)
(* is delivered, the Receive Window is unchanged, and the Receive Loop     *)
(* keeps running, so that it handles the later datagrams.                  *)
(***************************************************************************)
C12_MalformedDropped ==
    [][rx_class' = "malformed" /\ n_rx' = n_rx + 1 =>
          /\ UNCHANGED <<recv_window, recv_queue>>
          /\ recv_pc' = "run"]_vars

(***************************************************************************)
(* C17: once Client.stop() is called, the three loops end and stop()       *)
(* returns with the socket closed; the socket is closed only when all      *)
(* three loops have ended.                                                 *)
(***************************************************************************)
C17_StopTerminates ==
    /\ [](stop_pc = "closed" =>
            client_pc = "done" /\ send_pc \in {"done", "dead"} /\ recv_pc \in {"done", "dead"})
    /\ (stop_pc # "none") ~> (stop_pc = "closed")

(***************************************************************************)
(* C20: every call of SendThread.ack returns: the run-loop, once inside    *)
(* ack, leaves it.                                                         *)
(***************************************************************************)
C20_AckTerminates == (client_pc = "ack") ~> (client_pc # "ack")

(***************************************************************************)
(* C13: no packet is lost to an interrupted sendto.  When the Send Loop    *)
(* has nothing left to send (its queue is empty and it waits for the next  *)
(* packet), the latest packet it took a sequence number for has gone out:  *)
(* the robot was sent the frame with the sequence before next_seq.         *)
(***************************************************************************)
C13_InterruptedRetried ==
    (send_pc = "get" /\ send_queue = <<>> /\ n_frames > 0) =>
        robot_seq = (send_window.next_seq + MaxSeq - 1) % MaxSeq

(***************************************************************************)
(* C15: the frame the Send Loop builds from a dequeued packet is, for a    *)
(* Ping, a PING frame with first_seq = seq = 0 and ack = last_ack, the     *)
(* Send Window unchanged; for any other packet, an ENGINE frame with       *)
(* first_seq = seq = the sequence number the window assigned, ack =        *)
(* last_ack, and the packet buffered in the window under that sequence.    *)
(***************************************************************************)
C15_FrameBuilt ==
    [][(send_pc = "get" /\ send_pc' = "sendto") =>
          LET pkt == Head(send_queue)
              seq == send_window.next_seq
          IN  IF pkt = "Ping"
              THEN /\ send_frame' = Frame("PING", 0, 0, last_ack, <<pkt>>)
                   /\ send_window' = send_window
              ELSE /\ send_frame' = Frame("ENGINE", seq, seq, last_ack, <<pkt>>)
                   /\ seq \in DOMAIN send_window'.buffer
                   /\ send_window'.buffer[seq] = pkt
                   /\ send_window'.expected_seq = send_window.expected_seq]_vars

\* a PING frame was built for a keepalive of the CONNECTED client, carrying the
\* sequence number of the robot's packet as its ack
C15_Witness ==
    /\ send_pc = "sendto"
    /\ send_frame.type = "PING"
    /\ send_frame.ack = last_ack
    /\ state = CONNECTED

(***************************************************************************)
(* C16: Client.disconnect() called in state CONNECTED enqueues exactly one *)
(* Disconnect packet and leaves the state CONNECTED; called in IDLE or     *)
(* CONNECTING it enqueues nothing and changes nothing.                     *)
(***************************************************************************)
\* a call of the application that is not send(): disconnect()
DisconnectCalled == n_app' = n_app + 1 /\ send_queue' # Append(send_queue, "Other")

C16_Disconnect ==
    [][DisconnectCalled =>
          IF state = CONNECTED
          THEN /\ send_queue' = Append(send_queue, "Disconnect")
               /\ state' = CONNECTED
               /\ UNCHANGED <<send_window, last_ack, recvVars, sockVars, loopVars>>
          ELSE UNCHANGED <<sendVars, recvVars, sockVars, clientVars, appVars, loopVars>>]_vars

\* disconnect() was called in CONNECTED: its packet waits in the send queue
C16_Witness ==
    /\ state = CONNECTED
    /\ send_queue # <<>>
    /\ send_queue[Len(send_queue)] = "Disconnect"
    /\ n_app = 1

(***************************************************************************)
(* C14: the run loop enqueues a keepalive Ping in a cycle iff the state is *)
(* CONNECTED and the time since the last send exceeds the ping interval at *)
(* that cycle; no Ping is enqueued while the state is IDLE or CONNECTING;  *)
(* at most one per cycle; and while the state stays CONNECTED and the run  *)
(* loop runs, pings keep being enqueued.                                   *)
(***************************************************************************)
\* one cycle of Client.run comes to its end
CycleStep == client_pc = "cycle" /\ client_pc' # "cycle"

\* a Ping is put in the send queue
PingEnqueued == Count(send_queue', "Ping") > Count(send_queue, "Ping")

TakeStep == client_pc = "get" /\ recv_queue # <<>> /\ recv_queue' = Tail(recv_queue)

InSequence(pkt) == pkt # NoPkt /\ ~is_oob(pkt)

C18_LastAck ==
    /\ [][TakeStep =>
             /\ client_pkt' = Head(recv_queue)
             /\ \/ client_pc' = "ack"
                \/ client_pc' = "cycle" /\ SW_is_out_of_order(send_window, client_pkt'.ack)]_vars
    /\ [][CycleStep =>
             IF InSequence(client_pkt) THEN last_ack' = client_pkt.seq
                                       ELSE last_ack' = last_ack]_vars
    /\ [][ConnectCalled => last_ack' = INITIAL_ACK]_vars
    /\ [][last_ack' # last_ack => \/ CycleStep /\ InSequence(client_pkt)
                                  \/ ConnectCalled]_vars

\* the packet with seq 2 set last_ack, and a ping of the robot's processed after
\* it left it alone
C18_Witness ==
    /\ client_pc = "get"
    /\ client_pkt.kind = "Ping"
    /\ last_ack = 2
    /\ recv_queue = <<>>
    /\ n_rx = 3

(***************************************************************************)
(* C19: on dispatch of a FirmwareSignature packet the client enqueues, in  *)
(* this order, the three enable commands (0x25, 0x4b, 0x9f) and seven      *)
(* times (NextFrame, DisplayImage); only after all 17 are enqueued does it *)
(* dispatch EvtRobotReady; the Send Loop sends these packets in that order *)
(* with increasing sequence numbers.                                       *)
(***************************************************************************)
\* the i-th packet of the initialization
InitPacket(i) ==
    IF i = 1 THEN "Enable25"
    ELSE IF i = 2 THEN "Enable4b"
    ELSE IF i = 3 THEN "Enable9f"
    ELSE IF i % 2 = 0 THEN "NextFrame" ELSE "DisplayImage"

\* how many packets the Send Loop has handed to the socket
Handed == IF send_pc \in {"sendto", "dead"} THEN n_frames - 1 ELSE n_frames

=============================================================================
